---- MODULE Spec2Model ----
(***************************************************************************)
(* html_nested_tables: nested ordered association data rendered as an HTML *)
(* table with merged headers (src/html_nested_tables/base.py).             *)
(*                                                                         *)
(* Values.  A scalar is Scalar(n) or None; raw input is a tuple of (key,   *)
(* value) pairs, Tuple(items); a built table node is a TableDict,          *)
(* Dict(direction, items), whose class (HorizontalTableDict or             *)
(* VerticalTableDict) is its direction.  Python lists and tuples are       *)
(* sequences, an OrderedDict is the sequence of its items in insertion     *)
(* order.  Input mappings are non-empty and keys are unique in a mapping.  *)
(***************************************************************************)
EXTENDS Integers, Sequences, FiniteSets, TLC

\* Bounds of the explored inputs.
MaxSize == 2
MaxCalls == 2

HORIZONTAL == "horizontal"
VERTICAL == "vertical"

\* The classes h and v, in the order get_all_structures hands them to product().
h == HORIZONTAL
v == VERTICAL

Keys == {"x", "y"}

Scalar(n) == [kind |-> "int", val |-> n]
None == [kind |-> "none", val |-> 0]
Tuple(items) == [kind |-> "tuple", items |-> items]
Dict(direction, items) == [kind |-> "dict", direction |-> direction, items |-> items]
Item(key, value) == [k |-> key, v |-> value]

\* raised by indexing None (an axis without accessor paths) in inner_generator
TypeError == [kind |-> "TypeError", val |-> 0]

isTuple(value) == value.kind = "tuple"
isTableDict(value) == value.kind = "dict"

Max(a, b) == IF a >= b THEN a ELSE b
Min(a, b) == IF a <= b THEN a ELSE b
Range(s) == {s[i] : i \in 1..Len(s)}

\* F(value), with value computed once and then shared by all its uses in F
Bind(value, F(_)) == CHOOSE result \in {F(once) : once \in {value}} : TRUE

RECURSIVE Flatten(_)
\* concatenation of a sequence of sequences
Flatten(ss) == IF ss = <<>> THEN <<>> ELSE Head(ss) \o Flatten(Tail(ss))

(***************************************************************************)
(* Input data: every nested association tuple over Keys with at most       *)
(* MaxSize (key, value) pairs in all; the scalar leaves are numbered in    *)
(* depth-first order, so that every leaf value is distinct.                *)
(***************************************************************************)
RECURSIVE LeafCount(_)
LeafCount(value) ==
    IF isTuple(value)
    THEN LET RECURSIVE sum(_)
             sum(items) == IF items = <<>> THEN 0
                           ELSE LeafCount(Head(items).v) + sum(Tail(items))
         IN sum(value.items)
    ELSE 1

RECURSIVE Values(_, _), Entries(_, _, _)
Values(n, base) ==
    IF n = 0 THEN {Scalar(base + 1)}
    ELSE {Tuple(items) : items \in Entries(Keys, n, base)}

Entries(K, n, base) ==
    IF n = 0 THEN {<<>>}
    ELSE UNION { UNION { { <<Item(km[1], value)>> \o rest :
                           rest \in Entries(K \ {km[1]}, n - km[2],
                                            base + LeafCount(value)) } :
                         value \in Values(km[2] - 1, base) } :
                 km \in K \X (1..n) }

Generated == UNION {Values(n, 0) : n \in 1..MaxSize}

\* the data of the test suite
Level1 ==
    Tuple(<<Item("a", Scalar(1)), Item("b", Scalar(2)), Item("c", Scalar(3))>>)

Level2 ==
    Tuple(<<Item("a", Tuple(<<Item("aa", Scalar(11)), Item("ab", Scalar(12))>>)),
            Item("b", Tuple(<<Item("ba", Scalar(21)), Item("bb", Scalar(22)),
                              Item("bc", Scalar(23))>>)),
            Item("c", Tuple(<<Item("ca", Scalar(31))>>))>>)

MixedLevels ==
    Tuple(<<Item("a", Tuple(<<Item("aa", Scalar(11)), Item("ab", Scalar(12))>>)),
            Item("b", Scalar(2))>>)

\* from the example's data: two years, the first establishment of each
Example ==
    Tuple(<<Item("1901", Tuple(<<Item("maison d'arret",
                Tuple(<<Item("hommes", Scalar(50)), Item("femmes", Scalar(30))>>))>>)),
            Item("1903", Tuple(<<Item("maison d'arret",
                Tuple(<<Item("hommes", Scalar(70)), Item("femmes", Scalar(38)),
                        Item("jeunes filles", Scalar(2))>>))>>))>>)

\* mixed levels one level deeper: the branches share the key x, a mapping in
\* one and a value in the other
MixedShared ==
    Tuple(<<Item("a", Tuple(<<Item("x", Tuple(<<Item("p", Scalar(1))>>))>>)),
            Item("b", Tuple(<<Item("x", Scalar(2))>>))>>)

\* the mixed levels of the test suite in the other order: the value first
MixedLevelsReversed ==
    Tuple(<<Item("b", Scalar(2)),
            Item("a", Tuple(<<Item("aa", Scalar(11)), Item("ab", Scalar(12))>>))>>)

DataDicts ==
    Generated \cup {Level1, Level2, MixedLevels, Example, MixedShared,
                    MixedLevelsReversed}

(***************************************************************************)
(* TableDict._get_headers                                                  *)
(***************************************************************************)
\* a header entry: a bare key, or the list [key, child_headers]
Leaf(key) == [isList |-> FALSE, header |-> key, group |-> <<>>]
Group(key, child_headers) == [isList |-> TRUE, header |-> key, group |-> child_headers]

RECURSIVE extend_by_key(_, _)
\* a merge by key: a child header is skipped when its key is already there
extend_by_key(headers, child_headers) ==
    IF child_headers = <<>> THEN headers
    ELSE extend_by_key(IF \E i \in 1..Len(headers) :
                             headers[i].header = Head(child_headers).header
                       THEN headers
                       ELSE Append(headers, Head(child_headers)),
                       Tail(child_headers))

RECURSIVE extend_new(_, _)
\* for h in child_headers: if h not in headers: headers.append(h)
extend_new(headers, child_headers) ==
    IF child_headers = <<>> THEN headers
    ELSE extend_new(IF Head(child_headers) \in Range(headers) THEN headers
                    ELSE Append(headers, Head(child_headers)),
                    Tail(child_headers))

RECURSIVE get_headers(_, _)
get_headers(self, side) ==
    LET DictClass == side
        RECURSIVE loop(_, _)
        loop(items, headers) ==
            IF items = <<>> THEN headers
            ELSE LET key == Head(items).k
                     value == Head(items).v
                     added(child_headers) ==
                         IF isTableDict(value) /\ child_headers # <<>>
                         THEN IF self.direction = DictClass
                              THEN Append(headers, Group(key, child_headers))
                              ELSE extend_new(headers, child_headers)
                         ELSE IF self.direction = DictClass
                                 /\ Leaf(key) \notin Range(headers)
                              THEN Append(headers, Leaf(key))
                              ELSE headers
                 IN Bind(Bind(IF isTableDict(value)
                              THEN get_headers(value, side) ELSE <<>>, added),
                         LAMBDA next : loop(Tail(items), next))
    IN loop(self.items, <<>>)

horizontal_headers(self) == get_headers(self, HORIZONTAL)
vertical_headers(self) == get_headers(self, VERTICAL)

(***************************************************************************)
(* TableDict._get_headers_depth and TableDict._get_final_length            *)
(***************************************************************************)
RECURSIVE max_depth_headers(_)
\* max_depth(l) of a headers list: a bare key counts 0 (False), a list
\* [key, group] is a list of two elements
max_depth_headers(headers) ==
    LET RECURSIVE deepest(_)
        deepest(l) ==
            IF l = <<>> THEN 0
            ELSE Max(IF Head(l).isList
                     THEN Max(0, max_depth_headers(Head(l).group)) + 1
                     ELSE 0,
                     deepest(Tail(l)))
    IN deepest(headers) + 1

RECURSIVE max_depth_first(_)
\* the depth of the first branch only, in place of the deepest
max_depth_first(value) ==
    IF ~isTuple(value) THEN 0
    ELSE Max(0, max_depth_first(Head(value.items).v)) + 2

RECURSIVE max_depth_data(_)
\* max_depth(l) of raw data: a tuple of (key, value) tuples; keys and scalar
\* values count 0 (False)
max_depth_data(value) ==
    IF ~isTuple(value) THEN 0
    ELSE LET RECURSIVE deepest(_)
             deepest(items) ==
                 IF items = <<>> THEN 0
                 ELSE Max(Max(0, max_depth_data(Head(items).v)) + 1,
                          deepest(Tail(items)))
         IN deepest(value.items) + 1

\* d - d // 2
halve(d) == d - d \div 2

get_headers_depth(headers) ==
    IF headers = <<>> THEN 1 ELSE halve(max_depth_headers(headers))

get_headers_depth_data(data) ==
    IF data.items = <<>> THEN 1 ELSE halve(max_depth_data(data))

RECURSIVE get_final_length(_)
get_final_length(l) ==
    IF l = <<>> THEN 0
    ELSE (IF Head(l).isList THEN get_final_length(Head(l).group) ELSE 1)
         + get_final_length(Tail(l))

(***************************************************************************)
(* get_all_structures, build_table_dict                                    *)
(***************************************************************************)
RECURSIVE product(_, _)
\* itertools.product(pool, repeat=n): the first position varies slowest
product(pool, n) ==
    IF n = 0 THEN << <<>> >>
    ELSE Bind(product(pool, n - 1),
              LAMBDA rest : Flatten([i \in 1..Len(pool) |->
                                       [j \in 1..Len(rest) |->
                                          <<pool[i]>> \o rest[j]]]))

get_all_structures(data) == product(<<v, h>>, get_headers_depth_data(data))

RECURSIVE apply_structure(_, _, _)
\* level counts from 0 as in the source; structure is a 1-based sequence
apply_structure(data, structure, level) ==
    Dict(structure[level + 1],
         [i \in 1..Len(data.items) |->
            IF isTuple(data.items[i].v)
            THEN Item(data.items[i].k,
                      apply_structure(data.items[i].v, structure, level + 1))
            ELSE data.items[i]])

\* the lists an instance computes lazily
Lists == {"horizontal_accessors", "vertical_accessors", "data"}

\* the new instance: new.structure = structure is its only attribute
build_table_dict(data, structure) ==
    [dict |-> apply_structure(data, structure, 0),
     attrs |-> [n \in {"structure"} |-> structure],
     built |-> [l \in Lists |-> 0]]

(***************************************************************************)
(* TableDict._accessors_iterator                                           *)
(***************************************************************************)
RECURSIVE accessors_iterator(_, _)
accessors_iterator(headers, parent_accessors) ==
    IF headers = <<>> THEN <<>>
    ELSE (IF Head(headers).isList
          THEN accessors_iterator(Head(headers).group,
                                  Append(parent_accessors, Head(headers).header))
          ELSE <<Append(parent_accessors, Head(headers).header)>>)
         \o accessors_iterator(Tail(headers), parent_accessors)

(***************************************************************************)
(* Instance attributes.  An instance is [dict, attrs, built]: the ordered  *)
(* dict, its attribute dictionary (name -> value) and, as instrumentation, *)
(* how many times each lazily computed list has been built (built counts   *)
(* up to MaxCalls and stays there).                                        *)
(***************************************************************************)
\* inside the class body, the identifier self.__name is compiled to
\* self._TableDict__name; the string given to hasattr is left as written
mangle(name) == "_TableDict" \o name

hasattr(self, name) == name \in DOMAIN self.attrs

getattr(self, name) == self.attrs[name]

setattr(self, name, value) ==
    [self EXCEPT !.attrs = [n \in (DOMAIN self.attrs) \cup {name} |->
                               IF n = name THEN value ELSE self.attrs[n]]]

count_built(self, name) ==
    [self EXCEPT !.built[name] = Min(MaxCalls, self.built[name] + 1)]

Returned(self, value) == [self |-> self, value |-> value]

(***************************************************************************)
(* TableDict._horizontal_accessors, _vertical_accessors                    *)
(***************************************************************************)
\* a stale cache: once the attribute is stored, an empty list is returned
horizontal_accessors_stale(self) ==
    IF mangle("__horizontal_accessors") \notin DOMAIN self.attrs
    THEN Bind(setattr(count_built(self, "horizontal_accessors"),
                      mangle("__horizontal_accessors"),
                      accessors_iterator(horizontal_headers(self.dict), <<>>)),
              LAMBDA stored :
                  Returned(stored, getattr(stored, mangle("__horizontal_accessors"))))
    ELSE Returned(self, <<>>)

horizontal_accessors(self) ==
    IF ~hasattr(self, "__horizontal_accessors")
    THEN Bind(setattr(count_built(self, "horizontal_accessors"),
                      mangle("__horizontal_accessors"),
                      accessors_iterator(horizontal_headers(self.dict), <<>>)),
              LAMBDA stored :
                  Returned(stored, getattr(stored, mangle("__horizontal_accessors"))))
    ELSE Returned(self, getattr(self, mangle("__horizontal_accessors")))

vertical_accessors(self) ==
    IF ~hasattr(self, "__vertical_accessors")
    THEN Bind(setattr(count_built(self, "vertical_accessors"),
                      mangle("__vertical_accessors"),
                      accessors_iterator(vertical_headers(self.dict), <<>>)),
              LAMBDA stored :
                  Returned(stored, getattr(stored, mangle("__vertical_accessors"))))
    ELSE Returned(self, getattr(self, mangle("__vertical_accessors")))

(***************************************************************************)
(* TableDict._data_iterator                                                *)
(***************************************************************************)
\* one accessor of the iteration: a tuple of keys, or the None of (None,)
Accessor(path) == [isNone |-> FALSE, path |-> path]
NoneAccessor == [isNone |-> TRUE, path |-> <<>>]

\* the accessors alone, without the (None,) of an axis that has none
or_none_missing(accessors) ==
    [i \in 1..Len(accessors) |-> Accessor(accessors[i])]

\* accessors or (None,)
or_none(accessors) ==
    IF accessors = <<>> THEN <<NoneAccessor>>
    ELSE [i \in 1..Len(accessors) |-> Accessor(accessors[i])]

contains(dict, key) == \E i \in 1..Len(dict.items) : dict.items[i].k = key

lookup(dict, key) ==
    dict.items[CHOOSE i \in 1..Len(dict.items) : dict.items[i].k = key].v

\* the value as it is, without the isinstance test
after_loop_unchecked(value) == value

\* what the walk returns once the loop over the structure is left
after_loop(value) == IF isTableDict(value) THEN None ELSE value

\* a return in place of the break
on_index_error_return(value) == None

\* the break on IndexError
on_index_error(value) == after_loop(value)

inner_generator(self, vertical_accessor, horizontal_accessor) ==
    LET structure == getattr(self, "structure")
        RECURSIVE walk(_, _, _, _)
        walk(i, value, x, y) ==
            IF i > Len(structure) THEN after_loop(value)
            ELSE LET horizontal == structure[i] = HORIZONTAL
                     from == IF horizontal THEN horizontal_accessor
                             ELSE vertical_accessor
                     index == IF horizontal THEN x ELSE y
                 IN IF from.isNone THEN TypeError
                    ELSE IF index >= Len(from.path) THEN on_index_error(value)
                    ELSE IF ~isTableDict(value) THEN None
                    ELSE IF ~contains(value, from.path[index + 1]) THEN None
                    ELSE walk(i + 1, lookup(value, from.path[index + 1]),
                              IF horizontal THEN x + 1 ELSE x,
                              IF horizontal THEN y ELSE y + 1)
    IN walk(1, self.dict, 0, 0)

\* the cells in generation order: vertical accessors outside, horizontal inside
data_iterator(self) ==
    Bind(vertical_accessors(self), LAMBDA va :
    Bind(horizontal_accessors(va.self), LAMBDA ha :
    Bind(<<or_none(va.value), or_none(ha.value)>>, LAMBDA accessors :
        Returned(ha.self,
                 Flatten([i \in 1..Len(accessors[1]) |->
                            [j \in 1..Len(accessors[2]) |->
                               inner_generator(ha.self, accessors[1][i],
                                               accessors[2][j])]])))))

get_data(self) ==
    IF ~hasattr(self, "__data")
    THEN Bind(data_iterator(self), LAMBDA computed :
         Bind(setattr(count_built(computed.self, "data"),
                      mangle("__data"), computed.value), LAMBDA stored :
              Returned(stored, getattr(stored, mangle("__data")))))
    ELSE Returned(self, getattr(self, mangle("__data")))

(***************************************************************************)
(* TableDict._horizontal_header_iterator, _vertical_header_iterator        *)
(***************************************************************************)
\* props is the dict of a yielded header, as its items in insertion order
Prop(name, value) == [name |-> name, value |-> value]
Yield(header, depth, props, is_leaf) ==
    [header |-> header, depth |-> depth, props |-> props, is_leaf |-> is_leaf]

\* a span one level short
leaf_props_short(name, isList, depth, max_depth) ==
    IF ~isList /\ depth <= max_depth THEN <<Prop(name, max_depth - depth - 1)>>
    ELSE <<>>

\* if not group and depth <= max_depth: props[name] = max_depth - depth
leaf_props(name, isList, depth, max_depth) ==
    IF ~isList /\ depth <= max_depth THEN <<Prop(name, max_depth - depth)>>
    ELSE <<>>

RECURSIVE horizontal_header_iterator(_, _, _)
horizontal_header_iterator(self, headers, depth) ==
    Bind(IF headers = <<>> THEN horizontal_headers(self.dict) ELSE headers, LAMBDA hs :
    Bind(get_headers_depth(horizontal_headers(self.dict)), LAMBDA max_depth :
    Bind(Flatten([i \in 1..Len(hs) |->
                    IF hs[i].isList THEN hs[i].group ELSE <<>>]), LAMBDA to_be_explored :
        [i \in 1..Len(hs) |->
           Yield(hs[i].header, depth,
                 (IF hs[i].isList
                  THEN <<Prop("colspan", get_final_length(hs[i].group))>>
                  ELSE <<>>)
                 \o leaf_props("rowspan", hs[i].isList, depth, max_depth),
                 ~hs[i].isList)]
        \o (IF to_be_explored # <<>>
            THEN horizontal_header_iterator(self, to_be_explored, depth + 1)
            ELSE <<>>))))

RECURSIVE vertical_header_iterator(_, _, _)
vertical_header_iterator(self, headers, depth) ==
    Bind(IF headers = <<>> THEN vertical_headers(self.dict) ELSE headers, LAMBDA hs :
    Bind(get_headers_depth(vertical_headers(self.dict)), LAMBDA max_depth :
        Flatten([i \in 1..Len(hs) |->
                   <<Yield(hs[i].header, depth,
                           (IF hs[i].isList
                            THEN <<Prop("rowspan", get_final_length(hs[i].group))>>
                            ELSE <<>>)
                           \o leaf_props("colspan", hs[i].isList, depth, max_depth),
                           ~hs[i].isList)>>
                   \o (IF hs[i].isList
                       THEN vertical_header_iterator(self, hs[i].group, depth + 1)
                       ELSE <<>>)])))

(***************************************************************************)
(* TableDict.generate_html.  The returned string is modelled as the        *)
(* sequence of the pieces appended to out: each literal piece, each        *)
(* build_tag('th', props, header) and each '<td>%s</td>' is one element.   *)
(***************************************************************************)
Piece(tag, props, content) == [tag |-> tag, props |-> props, content |-> content]
Literal(text) == Piece(text, <<>>, "")

build_tag(name, props, content) == Piece(name, props, content)

\* '%s' % ('-' if data is None else data)
format(data) == IF data.kind = "none" THEN "-" ELSE ToString(data.val)

\* the slice [horizontal_length * data_index : horizontal_length * (data_index + 1)]
slice(data, horizontal_length, data_index) ==
    LET bound(i) == IF i < 0 THEN Max(0, Len(data) + i) ELSE Min(Len(data), i)
        start == bound(horizontal_length * data_index)
        stop == bound(horizontal_length * (data_index + 1))
    IN IF start < stop THEN SubSeq(data, start + 1, stop) ELSE <<>>

display_data(self, horizontal_length, data_index) ==
    Bind(get_data(self), LAMBDA data :
    Bind(slice(data.value, horizontal_length, data_index), LAMBDA cells :
        Returned(data.self,
                 [i \in 1..Len(cells) |-> Piece("td", <<>>, format(cells[i]))])))

\* a strict comparison: a header as deep as the previous one stays on its line
new_line_strict(depth, previous_depth) == depth < previous_depth

\* whether a vertical header opens a new line: if depth <= previous_depth
new_line(depth, previous_depth) == depth <= previous_depth

generate_html(self) ==
    Bind(<<horizontal_headers(self.dict), vertical_headers(self.dict)>>, LAMBDA headers :
    LET horizontal_headers_ == headers[1]
        vertical_headers_ == headers[2]
        horizontal_length ==
            IF get_final_length(horizontal_headers_) = 0 THEN 1
            ELSE get_final_length(horizontal_headers_)
        corner ==
            IF vertical_headers_ # <<>>
            THEN <<Piece("td style=\"border: none;\"",
                         <<Prop("colspan", get_headers_depth(vertical_headers_)),
                           Prop("rowspan", get_headers_depth(horizontal_headers_))>>,
                         "")>>
            ELSE <<>>
        RECURSIVE horizontal(_, _)
        \* the loop over the horizontal header iterator
        horizontal(yields, previous_depth) ==
            IF yields = <<>> THEN <<>>
            ELSE (IF Head(yields).depth # previous_depth
                  THEN <<Literal("</tr><tr>")>> ELSE <<>>)
                 \o <<build_tag("th", Head(yields).props, Head(yields).header)>>
                 \o horizontal(Tail(yields), Head(yields).depth)
        top == <<Literal("<table>")>>
               \o (IF horizontal_headers_ # <<>>
                   THEN <<Literal("<tr>")>> \o corner
                        \o horizontal(horizontal_header_iterator(
                                          self, horizontal_headers_, 0), 0)
                   ELSE <<>>)
        \* one pass of the loop over the vertical header iterator
        pass(yield, loop) ==
            LET line == new_line(yield.depth, loop.previous_depth)
                data_index == IF line THEN loop.data_index + 1 ELSE loop.data_index
            IN Bind(IF yield.is_leaf
                    THEN display_data(loop.self, horizontal_length, data_index)
                    ELSE Returned(loop.self, <<>>),
                    LAMBDA shown :
                        [previous_depth |-> yield.depth,
                         data_index |-> data_index,
                         out |-> loop.out
                                 \o (IF line THEN <<Literal("</tr><tr>")>> ELSE <<>>)
                                 \o <<build_tag("th", yield.props, yield.header)>>
                                 \o shown.value,
                         self |-> shown.self])
        RECURSIVE vertical(_, _)
        vertical(yields, loop) ==
            IF yields = <<>> THEN Returned(loop.self, loop.out)
            ELSE Bind(pass(Head(yields), loop),
                      LAMBDA next : vertical(Tail(yields), next))
    IN Bind(IF vertical_headers_ # <<>>
            THEN vertical(vertical_header_iterator(self, vertical_headers_, 0),
                          [previous_depth |-> 0, data_index |-> -1,
                           out |-> top, self |-> self])
            ELSE Bind(display_data(self, horizontal_length, 0), LAMBDA shown :
                      Returned(shown.self,
                               top \o <<Literal("</tr><tr>")>> \o shown.value
                                   \o <<Literal("</tr>")>>)),
            LAMBDA body : Returned(body.self, body.value \o <<Literal("</table>")>>)))

(***************************************************************************)
(* TableDict.get_ugliness, build_optimal_table_dict                        *)
(***************************************************************************)
\* the difference taken as it is
abs_missing(n) == n

abs(n) == IF n < 0 THEN -n ELSE n

get_ugliness(self) ==
    LET vertical_length == get_final_length(vertical_headers(self.dict))
        horizontal_length == get_final_length(horizontal_headers(self.dict))
    IN vertical_length + horizontal_length
       + abs(vertical_length - horizontal_length)

\* sorted() compares keys with <, and is stable: an element moves in front
\* of another only when its key is smaller
before(a, b) == a < b

\* a sort that is not stable: among equal keys the later table comes first
sorted_unstable(tables) ==
    Bind([i \in 1..Len(tables) |-> get_ugliness(tables[i])], LAMBDA keys :
        LET place(i) ==
                1 + Cardinality({j \in 1..Len(tables) :
                                   \/ keys[j] < keys[i]
                                   \/ j > i /\ keys[j] = keys[i]})
        IN [n \in 1..Len(tables) |->
              tables[CHOOSE i \in 1..Len(tables) : place(i) = n]])

\* sorted(tables, key=lambda t: t.get_ugliness()): each key is computed once;
\* the i-th table comes after every table that goes before it and after the
\* earlier tables that it does not go before
sorted(tables) ==
    Bind([i \in 1..Len(tables) |-> get_ugliness(tables[i])], LAMBDA keys :
        LET place(i) ==
                1 + Cardinality({j \in 1..Len(tables) :
                                   \/ before(keys[j], keys[i])
                                   \/ j < i /\ ~before(keys[i], keys[j])})
        IN [n \in 1..Len(tables) |->
              tables[CHOOSE i \in 1..Len(tables) : place(i) = n]])

build_optimal_table_dict(data) ==
    Bind(get_all_structures(data), LAMBDA structures :
        sorted([i \in 1..Len(structures) |->
                  build_table_dict(data, structures[i])])[1])

(***************************************************************************)
(* The program: a caller holds raw data, builds a table from it and calls  *)
(* the table's methods in any order.  A behaviour follows one instance:    *)
(* building another table starts another behaviour.                        *)
(*   datadict  the raw nested association data                             *)
(*   table     the TableDict instance the caller holds (NoTable before)    *)
(*   returned  the last call and the value it returned                     *)
(***************************************************************************)
VARIABLES datadict, table, returned

vars == <<datadict, table, returned>>

NoTable == [dict |-> None, attrs |-> <<>>, built |-> [l \in Lists |-> 0]]

Call(name, value) == [call |-> name, value |-> value]

Init ==
    /\ datadict \in DataDicts
    /\ table = NoTable
    /\ returned = Call("", None)

GetAllStructures ==
    /\ returned' = Call("get_all_structures", get_all_structures(datadict))
    /\ UNCHANGED <<datadict, table>>

BuildTableDict ==
    \E structure \in Range(get_all_structures(datadict)) :
        /\ table = NoTable
        /\ table' = build_table_dict(datadict, structure)
        /\ returned' = Call("build_table_dict", structure)
        /\ UNCHANGED datadict

BuildOptimalTableDict ==
    /\ table = NoTable
    /\ table' = build_optimal_table_dict(datadict)
    /\ returned' = Call("build_optimal_table_dict", getattr(table', "structure"))
    /\ UNCHANGED datadict

HorizontalHeaders ==
    /\ table # NoTable
    /\ returned' = Call("horizontal_headers", horizontal_headers(table.dict))
    /\ UNCHANGED <<datadict, table>>

VerticalHeaders ==
    /\ table # NoTable
    /\ returned' = Call("vertical_headers", vertical_headers(table.dict))
    /\ UNCHANGED <<datadict, table>>

HorizontalAccessors ==
    /\ table # NoTable
    /\ \E result \in {horizontal_accessors(table)} :
          /\ table' = result.self
          /\ returned' = Call("horizontal_accessors", result.value)
    /\ UNCHANGED datadict

VerticalAccessors ==
    /\ table # NoTable
    /\ \E result \in {vertical_accessors(table)} :
          /\ table' = result.self
          /\ returned' = Call("vertical_accessors", result.value)
    /\ UNCHANGED datadict

GetData ==
    /\ table # NoTable
    /\ \E result \in {get_data(table)} :
          /\ table' = result.self
          /\ returned' = Call("get_data", result.value)
    /\ UNCHANGED datadict

GenerateHtml ==
    /\ table # NoTable
    /\ \E result \in {generate_html(table)} :
          /\ table' = result.self
          /\ returned' = Call("generate_html", result.value)
    /\ UNCHANGED datadict

GetUgliness ==
    /\ table # NoTable
    /\ returned' = Call("get_ugliness", get_ugliness(table))
    /\ UNCHANGED <<datadict, table>>

HorizontalHeaderIterator ==
    /\ table # NoTable
    /\ returned' = Call("horizontal_header_iterator",
                        horizontal_header_iterator(table, <<>>, 0))
    /\ UNCHANGED <<datadict, table>>

VerticalHeaderIterator ==
    /\ table # NoTable
    /\ returned' = Call("vertical_header_iterator",
                        vertical_header_iterator(table, <<>>, 0))
    /\ UNCHANGED <<datadict, table>>

Next ==
    \/ GetAllStructures
    \/ BuildTableDict
    \/ BuildOptimalTableDict
    \/ HorizontalHeaders
    \/ VerticalHeaders
    \/ HorizontalAccessors
    \/ VerticalAccessors
    \/ GetData
    \/ GenerateHtml
    \/ GetUgliness
    \/ HorizontalHeaderIterator
    \/ VerticalHeaderIterator

Spec == Init /\ [][Next]_vars

(***************************************************************************)
(* Properties                                                              *)
(***************************************************************************)
\* the table built from each structure of get_all_structures, in its order
AllTables ==
    [i \in 1..Len(get_all_structures(datadict)) |->
        build_table_dict(datadict, get_all_structures(datadict)[i])]

\* C1: build_optimal_table_dict returns the table of the first structure, in
\* the order of get_all_structures, whose ugliness is minimal: no structure
\* gives a smaller ugliness and no earlier structure gives the same.
C1_OptimalIsFirstMinimal ==
    returned.call = "build_optimal_table_dict" =>
        Bind([i \in 1..Len(AllTables) |-> get_ugliness(AllTables[i])],
             LAMBDA ugliness :
                \E i \in 1..Len(AllTables) :
                    /\ table = AllTables[i]
                    /\ \A j \in 1..Len(AllTables) : ugliness[i] <= ugliness[j]
                    /\ \A j \in 1..(i - 1) : ugliness[j] # ugliness[i])

\* the optimal table is not the first one, and a later structure ties with it
C1_Witness ==
    /\ returned.call = "build_optimal_table_dict"
    /\ table # AllTables[1]
    /\ \E i, j \in 1..Len(AllTables) :
          /\ i < j
          /\ table = AllTables[i]
          /\ get_ugliness(AllTables[j]) = get_ugliness(AllTables[i])

\* the nesting depth of raw data: the number of mapping levels on its deepest
\* branch
RECURSIVE NestingDepth(_)
NestingDepth(value) ==
    IF ~isTuple(value) THEN 0
    ELSE LET RECURSIVE deepest(_)
             deepest(items) ==
                 IF items = <<>> THEN 0
                 ELSE Max(NestingDepth(Head(items).v), deepest(Tail(items)))
         IN 1 + deepest(value.items)

RECURSIVE Pow2(_)
Pow2(n) == IF n = 0 THEN 1 ELSE 2 * Pow2(n - 1)

\* C2: get_all_structures returns exactly 2^d structures for data of nesting
\* depth d (the deepest branch of mixed-depth data), each a sequence of d axis
\* tags, and no two of them equal.
C2_AllStructures ==
    returned.call = "get_all_structures" =>
        LET d == NestingDepth(datadict)
            structures == returned.value
        IN /\ Len(structures) = Pow2(d)
           /\ \A i \in 1..Len(structures) :
                 /\ Len(structures[i]) = d
                 /\ Range(structures[i]) \subseteq {v, h}
           /\ \A i, j \in 1..Len(structures) :
                 i # j => structures[i] # structures[j]

\* the structures of mixed-depth data whose first branch is not the deepest
C2_Witness ==
    /\ returned.call = "get_all_structures"
    /\ NestingDepth(datadict) >= 2
    /\ ~isTuple(datadict.items[1].v)
    /\ Len(returned.value) = Pow2(NestingDepth(datadict))

\* C3: get_ugliness returns a non-negative even integer,
\* 2 * max(row leaf count, column leaf count), the counts being the final
\* lengths of the vertical and of the horizontal headers.
C3_Ugliness ==
    returned.call = "get_ugliness" =>
        LET row_leaf_count == get_final_length(vertical_headers(table.dict))
            col_leaf_count == get_final_length(horizontal_headers(table.dict))
        IN /\ returned.value = 2 * Max(row_leaf_count, col_leaf_count)
           /\ returned.value >= 0
           /\ returned.value % 2 = 0

\* the ugliness of a table with more columns than rows, and at least one row
C3_Witness ==
    /\ returned.call = "get_ugliness"
    /\ get_final_length(vertical_headers(table.dict)) >= 1
    /\ get_final_length(horizontal_headers(table.dict))
         > get_final_length(vertical_headers(table.dict))
    /\ returned.value = 2 * get_final_length(horizontal_headers(table.dict))

\* the root-to-leaf key paths of raw data, depth first in key order
RECURSIVE KeyPaths(_, _)
KeyPaths(value, path) ==
    IF ~isTuple(value) THEN <<path>>
    ELSE Flatten([i \in 1..Len(value.items) |->
                    KeyPaths(value.items[i].v, Append(path, value.items[i].k))])

\* the leaf values of raw data, depth first in key order
RECURSIVE LeafValues(_)
LeafValues(value) ==
    IF ~isTuple(value) THEN <<value>>
    ELSE Flatten([i \in 1..Len(value.items) |-> LeafValues(value.items[i].v)])

\* the data lines of a rendered table: the contents of each longest run of
\* consecutive <td>...</td> cells
DataLines(html) ==
    LET isCell(i) == i >= 1 /\ i <= Len(html) /\ html[i].tag = "td"
        starts == {i \in 1..Len(html) : isCell(i) /\ ~isCell(i - 1)}
        RECURSIVE lines(_)
        lines(from) ==
            IF \A i \in starts : i < from THEN <<>>
            ELSE LET first == CHOOSE i \in starts :
                                 i >= from /\ \A j \in starts : j >= from => i <= j
                     last == CHOOSE i \in first..Len(html) :
                                 /\ \A j \in first..i : isCell(j)
                                 /\ ~isCell(i + 1)
                 IN <<[i \in 1..(last - first + 1) |-> html[first + i - 1].content]>>
                    \o lines(last + 1)
    IN lines(1)

Uniform(structure, direction) ==
    \A i \in 1..Len(structure) : structure[i] = direction

\* C4: for data whose leaves are real values, built with a structure that gives
\* every depth level the same axis: the accessor paths of that axis are the
\* root-to-leaf key paths of the data in depth-first key order, the other axis
\* has no headers, and the data sequence is the leaf values in that order, none
\* absent; all on columns is rendered as one data line, all on rows as one cell
\* per line.
C4_SingleAxis ==
    (/\ table # NoTable
     /\ \A i \in 1..Len(LeafValues(datadict)) : LeafValues(datadict)[i] # None) =>
        LET structure == getattr(table, "structure")
            paths == KeyPaths(datadict, <<>>)
            leaves == LeafValues(datadict)
            cells == [i \in 1..Len(leaves) |-> format(leaves[i])]
        IN /\ Uniform(structure, HORIZONTAL) =>
                /\ returned.call = "horizontal_accessors" => returned.value = paths
                /\ returned.call = "vertical_headers" => returned.value = <<>>
                /\ returned.call = "get_data" => returned.value = leaves
                /\ returned.call = "generate_html" =>
                       DataLines(returned.value) = <<cells>>
           /\ Uniform(structure, VERTICAL) =>
                /\ returned.call = "vertical_accessors" => returned.value = paths
                /\ returned.call = "horizontal_headers" => returned.value = <<>>
                /\ returned.call = "get_data" => returned.value = leaves
                /\ returned.call = "generate_html" =>
                       DataLines(returned.value)
                           = [i \in 1..Len(cells) |-> <<cells[i]>>]

\* the data of a mixed-depth tree built all on columns: a leaf directly under
\* the root, next to a nested mapping
C4_Witness ==
    /\ table # NoTable
    /\ Uniform(getattr(table, "structure"), HORIZONTAL)
    /\ \E i, j \in 1..Len(datadict.items) :
          isTuple(datadict.items[i].v) /\ ~isTuple(datadict.items[j].v)
    /\ returned.call = "get_data"
    /\ returned.value = LeafValues(datadict)

RECURSIVE UniqueKeys(_)
\* no key twice at any level of a header list, as a bare key or as the key of
\* a list [key, group]
UniqueKeys(headers) ==
    /\ \A i, j \in 1..Len(headers) :
          i # j => headers[i].header # headers[j].header
    /\ \A i \in 1..Len(headers) :
          headers[i].isList => UniqueKeys(headers[i].group)

\* the TableDicts of a table: the root and every nested one
RECURSIVE Nodes(_)
Nodes(value) ==
    IF ~isTableDict(value) THEN {}
    ELSE {value} \cup UNION {Nodes(value.items[i].v) : i \in 1..Len(value.items)}

\* C5: in the header list of any node and axis, no key occurs more than once
\* at the same nesting level, whether as a leaf header or as the label of a
\* header group.
C5_HeadersUniqueByKey ==
    returned.call \in {"horizontal_headers", "vertical_headers"} =>
        \A node \in Nodes(table.dict) : \A side \in {HORIZONTAL, VERTICAL} :
            UniqueKeys(get_headers(node, side))

\* headers or [1]
or_one(headers) == IF headers = <<>> THEN <<Leaf("1")>> ELSE headers

\* C6 as stated: final_length(col_headers) * final_length(row_headers or [1])
\* is the number of cells of the data sequence.
C6_CellCountAsStated ==
    returned.call = "get_data" =>
        get_final_length(horizontal_headers(table.dict))
            * get_final_length(or_one(vertical_headers(table.dict)))
        = Len(returned.value)

\* C6, amended: final_length(col_headers or [1])
\* * final_length(row_headers or [1]) is the number of cells of the data
\* sequence, absent cells included.
C6_CellCount ==
    returned.call = "get_data" =>
        get_final_length(or_one(horizontal_headers(table.dict)))
            * get_final_length(or_one(vertical_headers(table.dict)))
        = Len(returned.value)

\* the data of a table without column headers and with several rows
C6_Witness ==
    /\ returned.call = "get_data"
    /\ horizontal_headers(table.dict) = <<>>
    /\ get_final_length(vertical_headers(table.dict)) >= 2
    /\ Len(returned.value) = get_final_length(vertical_headers(table.dict))

\* the keys one cell's walk takes from its two paths, one per level of the
\* structure, up to the level whose axis has no key left
Taken(structure, vertical_accessor, horizontal_accessor) ==
    LET RECURSIVE keys(_, _, _)
        keys(i, x, y) ==
            IF i > Len(structure) THEN <<>>
            ELSE IF structure[i] = HORIZONTAL
                 THEN IF x >= Len(horizontal_accessor.path) THEN <<>>
                      ELSE <<horizontal_accessor.path[x + 1]>> \o keys(i + 1, x + 1, y)
                 ELSE IF y >= Len(vertical_accessor.path) THEN <<>>
                      ELSE <<vertical_accessor.path[y + 1]>> \o keys(i + 1, x, y + 1)
    IN keys(1, 0, 0)

\* where a sequence of keys leads in the raw data, if it leads anywhere
RECURSIVE Follow(_, _)
Follow(value, keys) ==
    IF keys = <<>> THEN [found |-> TRUE, value |-> value]
    ELSE IF isTuple(value)
            /\ \E i \in 1..Len(value.items) : value.items[i].k = Head(keys)
         THEN Follow(value.items[CHOOSE i \in 1..Len(value.items) :
                                     value.items[i].k = Head(keys)].v,
                     Tail(keys))
         ELSE [found |-> FALSE, value |-> None]

\* the (vertical accessor, horizontal accessor) pairs of a table's data
\* sequence, cell by cell
Pairs ==
    LET vs == or_none(accessors_iterator(vertical_headers(table.dict), <<>>))
        hs == or_none(accessors_iterator(horizontal_headers(table.dict), <<>>))
    IN Flatten([i \in 1..Len(vs) |-> [j \in 1..Len(hs) |-> <<vs[i], hs[j]>>]])

\* the three cases of a walk, read off the raw data
Reached(pair) ==
    Follow(datadict, Taken(getattr(table, "structure"), pair[1], pair[2]))

PathExhausted(pair) ==
    /\ Len(Taken(getattr(table, "structure"), pair[1], pair[2]))
          < Len(getattr(table, "structure"))
    /\ Reached(pair).found

KeyNotPresent(pair) == ~Reached(pair).found

EndsOnNonScalar(pair) == Reached(pair).found /\ isTuple(Reached(pair).value)

\* C7 as stated: the cell is absent, and no error is raised, when the path of
\* the axis required at some depth is exhausted, when the lookup key is not
\* present in the current node, and when the walk ends on a non-scalar node.
C7_AbsentAsStated ==
    returned.call = "get_data" =>
        \A n \in 1..Len(Pairs) :
            (PathExhausted(Pairs[n]) \/ KeyNotPresent(Pairs[n])
             \/ EndsOnNonScalar(Pairs[n]))
            => returned.value[n] = None

\* C7, amended: no walk raises an error; the cell is absent when the lookup
\* key is not present in the current node and when the walk ends on a
\* non-scalar node; when the path of the axis required at some depth is
\* exhausted the walk stops there, and the cell is the node reached if that is
\* a scalar, absent if it is not.
C7_Absent ==
    returned.call = "get_data" =>
        /\ Len(returned.value) = Len(Pairs)
        /\ \A n \in 1..Len(Pairs) :
              /\ returned.value[n] # TypeError
              /\ KeyNotPresent(Pairs[n]) => returned.value[n] = None
              /\ EndsOnNonScalar(Pairs[n]) => returned.value[n] = None
              /\ (PathExhausted(Pairs[n]) /\ ~EndsOnNonScalar(Pairs[n]))
                    => returned.value[n] = Reached(Pairs[n]).value

\* the data of a table with the three cases: a path exhausted on a scalar,
\* which is the cell; a key that is not present; a walk that ends on a mapping
C7_Witness ==
    /\ returned.call = "get_data"
    /\ \E n \in 1..Len(Pairs) :
          /\ PathExhausted(Pairs[n])
          /\ returned.value[n] = Reached(Pairs[n]).value
          /\ returned.value[n] # None
    /\ \E n \in 1..Len(Pairs) : KeyNotPresent(Pairs[n]) /\ returned.value[n] = None
    /\ \E n \in 1..Len(Pairs) : EndsOnNonScalar(Pairs[n]) /\ returned.value[n] = None

\* C8: on one instance, over any sequence of calls, each lazily computed list
\* (horizontal accessors, vertical accessors, data) is built at most once: the
\* first access computes it and later accesses return the stored value.
C8_BuiltAtMostOnce ==
    \A l \in Lists : table.built[l] <= 1

\* C9: generate_html is deterministic: called on an instance in any state
\* reached by earlier calls (generate_html, get_ugliness, header and accessor
\* queries, _get_data), it returns what it returns on a table freshly built
\* from the same data and structure.
C9_Deterministic ==
    returned.call = "generate_html" =>
        returned.value
            = generate_html(build_table_dict(datadict, table.attrs["structure"])).value

\* a rendering by an instance that was used before: without vertical headers
\* one rendering builds the data once, so a second build shows an earlier call
C9_Witness ==
    /\ returned.call = "generate_html"
    /\ vertical_headers(table.dict) = <<>>
    /\ get_final_length(horizontal_headers(table.dict)) >= 2
    /\ table.built["data"] >= 2
    /\ returned.value
          = generate_html(build_table_dict(datadict, table.attrs["structure"])).value

\* the positions where the data lines of a rendered table start, in order
LineStarts(html) ==
    LET isCell(i) == i >= 1 /\ i <= Len(html) /\ html[i].tag = "td"
        starts == {i \in 1..Len(html) : isCell(i) /\ ~isCell(i - 1)}
        RECURSIVE ordered(_)
        ordered(from) ==
            IF \A i \in starts : i < from THEN <<>>
            ELSE LET first == CHOOSE i \in starts :
                                 i >= from /\ \A j \in starts : j >= from => i <= j
                 IN <<first>> \o ordered(first + 1)
    IN ordered(1)

\* C10: with H = max(1, final_length(horizontal headers)): when there are
\* vertical headers, generate_html emits one data line per vertical leaf header,
\* and the k-th leaf in depth-first order (k from 0) is followed by exactly the
\* cells at positions [k*H, (k+1)*H) of the data sequence; without vertical
\* headers it emits one data line, holding the positions [0, H).
C10_DataLines ==
    returned.call = "generate_html" =>
        LET html == returned.value
            H == Max(1, get_final_length(horizontal_headers(table.dict)))
            leaves == accessors_iterator(vertical_headers(table.dict), <<>>)
            data == data_iterator(table).value
            cells(k) == [i \in 1..H |-> format(data[k * H + i])]
            starts == LineStarts(html)
        IN IF vertical_headers(table.dict) # <<>>
           THEN /\ Len(data) = H * Len(leaves)
                /\ DataLines(html) = [n \in 1..Len(leaves) |-> cells(n - 1)]
                /\ \A n \in 1..Len(leaves) :
                      /\ html[starts[n] - 1].tag = "th"
                      /\ html[starts[n] - 1].content = leaves[n][Len(leaves[n])]
                      /\ n > 1 => \E i \in starts[n - 1]..starts[n] :
                                      html[i].tag = "</tr><tr>"
           ELSE /\ Len(data) = H
                /\ DataLines(html) = <<cells(0)>>

\* a rendered table with nested vertical headers, several lines and several
\* cells per line
C10_Witness ==
    /\ returned.call = "generate_html"
    /\ get_headers_depth(vertical_headers(table.dict)) >= 2
    /\ get_final_length(horizontal_headers(table.dict)) >= 2
    /\ Len(DataLines(returned.value)) >= 2
    /\ Len(DataLines(returned.value))
          = get_final_length(vertical_headers(table.dict))
    /\ \A n \in 1..Len(DataLines(returned.value)) :
          Len(DataLines(returned.value)[n])
              = get_final_length(horizontal_headers(table.dict))

\* every header of a nested header list with its depth, parents before children
RECURSIVE HeaderNodes(_, _)
HeaderNodes(headers, depth) ==
    Flatten([i \in 1..Len(headers) |->
               <<[header |-> headers[i].header, depth |-> depth,
                  isList |-> headers[i].isList, group |-> headers[i].group]>>
               \o (IF headers[i].isList
                   THEN HeaderNodes(headers[i].group, depth + 1) ELSE <<>>)])

\* the number of headers without children in a nested header list
LeafHeaders(headers) ==
    Cardinality({i \in 1..Len(HeaderNodes(headers, 0)) :
                    ~HeaderNodes(headers, 0)[i].isList})

\* the number of nesting levels of a header list (1 for an empty list)
HeaderLevels(headers) ==
    LET depths == {HeaderNodes(headers, 0)[i].depth :
                      i \in 1..Len(HeaderNodes(headers, 0))}
    IN IF depths = {} THEN 1
       ELSE 1 + (CHOOSE d \in depths : \A e \in depths : e <= d)

\* the spans named `name` that a yielded header carries
Spans(yield, name) ==
    {yield.props[i].value : i \in {j \in 1..Len(yield.props) :
                                       yield.props[j].name = name}}

\* what the claim says of the headers yielded for a header list: `own` is the
\* span along the iterator's axis, `across` the span across nesting levels
SpanGeometry(yields, headers, own, across) ==
    LET nodes == HeaderNodes(headers, 0)
        max_depth == get_headers_depth(headers)
        said(node) ==
            <<node.header, node.depth, ~node.isList,
              IF node.isList THEN LeafHeaders(node.group)
              ELSE max_depth - node.depth>>
        carried(yield) ==
            <<yield.header, yield.depth, yield.is_leaf,
              Spans(yield, IF yield.is_leaf THEN across ELSE own)>>
    IN /\ Len(yields) = Len(nodes)
       /\ {carried(yields[i]) : i \in 1..Len(yields)}
             = {<<said(nodes[i])[1], said(nodes[i])[2], said(nodes[i])[3],
                  {said(nodes[i])[4]}>> : i \in 1..Len(nodes)}
       /\ max_depth = HeaderLevels(headers)
       /\ \A i \in 1..Len(yields) :
             yields[i].is_leaf =>
                 \A span \in Spans(yields[i], across) :
                     /\ span >= 1
                     /\ yields[i].depth + span = max_depth

\* C11: both header iterators yield every header once, a header with children
\* with a span along its own axis (colspan for the horizontal iterator,
\* rowspan for the vertical one) equal to the number of leaf headers below it,
\* and every leaf header with a span across the nesting levels (rowspan,
\* resp. colspan) equal to max_depth - depth, which is at least 1, so that
\* depth + span = max_depth.
C11_SpanGeometry ==
    /\ returned.call = "horizontal_header_iterator" =>
           SpanGeometry(returned.value, horizontal_headers(table.dict),
                        "colspan", "rowspan")
    /\ returned.call = "vertical_header_iterator" =>
           SpanGeometry(returned.value, vertical_headers(table.dict),
                        "rowspan", "colspan")

\* the horizontal headers of a table where a header with several children
\* stands beside a leaf header that spans several levels
C11_Witness ==
    /\ returned.call = "horizontal_header_iterator"
    /\ \E i \in 1..Len(returned.value) :
          /\ ~returned.value[i].is_leaf
          /\ \E span \in Spans(returned.value[i], "colspan") : span >= 2
    /\ \E i \in 1..Len(returned.value) :
          /\ returned.value[i].is_leaf
          /\ \E span \in Spans(returned.value[i], "rowspan") : span >= 2
    /\ \E i \in 1..Len(returned.value) :
          /\ returned.value[i].is_leaf
          /\ returned.value[i].depth >= 1
          /\ Spans(returned.value[i], "rowspan") = {1}

\* all leaves of the raw data lie at the same depth
UniformDepth(value) ==
    \A p, q \in Range(KeyPaths(value, <<>>)) : Len(p) = Len(q)

\* the keys of a key path at the levels that the structure gives to one axis
Project(path, structure, side) ==
    LET RECURSIVE keys(_)
        keys(i) ==
            IF i > Len(path) THEN <<>>
            ELSE (IF structure[i] = side THEN <<path[i]>> ELSE <<>>) \o keys(i + 1)
    IN keys(1)

\* the accessor of an axis for a projected path: None when the axis has no level
AccessorOf(path) == IF path = <<>> THEN NoneAccessor ELSE Accessor(path)

\* the cells of the data sequence that stand at the projections of a key path
CellsOf(path) ==
    {n \in 1..Len(Pairs) :
        Pairs[n] = <<AccessorOf(Project(path, getattr(table, "structure"), VERTICAL)),
                     AccessorOf(Project(path, getattr(table, "structure"),
                                        HORIZONTAL))>>}

\* C12: for data whose leaves all lie at the same depth d (no mapping is
\* empty), built with any structure of length d: every scalar leaf stands in
\* the data sequence at the cell whose vertical and horizontal accessors are
\* the projections of the leaf's key path onto the vertical and horizontal
\* levels of the structure, and every cell that is not absent holds the leaf
\* that its pair of accessors reaches in the data.
C12_NoDataLost ==
    (returned.call = "get_data" /\ UniformDepth(datadict)) =>
        /\ Len(getattr(table, "structure")) = NestingDepth(datadict)
        /\ Len(returned.value) = Len(Pairs)
        /\ \A path \in Range(KeyPaths(datadict, <<>>)) :
              /\ CellsOf(path) # {}
              /\ \A n \in CellsOf(path) :
                    returned.value[n] = Follow(datadict, path).value
        /\ \A n \in 1..Len(Pairs) :
              returned.value[n] # None =>
                  /\ Reached(Pairs[n]).found
                  /\ ~isTuple(Reached(Pairs[n]).value)
                  /\ returned.value[n] = Reached(Pairs[n]).value
                  /\ Len(Taken(getattr(table, "structure"), Pairs[n][1], Pairs[n][2]))
                        = Len(getattr(table, "structure"))

\* the data of a table of uniform depth, three levels put on both axes, where
\* sibling subtrees share a key and some cells are absent
C12_Witness ==
    /\ returned.call = "get_data"
    /\ UniformDepth(datadict)
    /\ NestingDepth(datadict) >= 3
    /\ {HORIZONTAL, VERTICAL} \subseteq Range(getattr(table, "structure"))
    /\ ~UniqueKeys(horizontal_headers(table.dict))
    /\ \E n \in 1..Len(returned.value) : returned.value[n] = None
    /\ \A path \in Range(KeyPaths(datadict, <<>>)) :
          \E n \in CellsOf(path) : returned.value[n] = Follow(datadict, path).value
====
